---- MODULE Spec2Model ----
(***************************************************************************)
(* Model of the jstack analyzer (scripts/jstack_analyzer.py).              *)
(*                                                                         *)
(* A Python str is a sequence of one-character strings.  A text is the     *)
(* non-empty sequence of its lines, i.e. the value of text.split('\n');    *)
(* the empty text "" is << <<>> >>.                                        *)
(***************************************************************************)
EXTENDS Integers, Sequences, FiniteSets, TLC

VARIABLES
    pc,            \* position of main(): "start", "parsed", "analyzed", "reported"
    content,       \* the text read from input_file
    threads,       \* JStackAnalyzer.threads
    timestamp,     \* JStackAnalyzer.timestamp
    jvm_info,      \* JStackAnalyzer.jvm_info
    stats,         \* the dict returned by analyze_threads
    report,        \* what generate_html_report derives from stats
    arg,           \* the argument of a function applied on its own
    result         \* and what it returned

vars == <<pc, content, threads, timestamp, jvm_info, stats, report, arg, result>>

-----------------------------------------------------------------------------
(* Characters and str methods *)

Quote == "\""

\* characters str.strip() and the regex class \s remove / match
Whitespace == {" ", "\t", "\r"}

Digits == {"0", "1", "2", "3", "4", "5", "6", "7", "8", "9"}

HexDigits == Digits \cup {"a", "b", "c", "d", "e", "f"}

EmptyStr == <<>>

EmptyText == <<EmptyStr>>

None == [none |-> TRUE]

SetMin(S) == CHOOSE m \in S : \A k \in S : m <= k

SetMax(S) == CHOOSE m \in S : \A k \in S : k <= m

\* s[i:] and s[:i] (1-based i)
DropBefore(s, i) == SubSeq(s, i, Len(s))

AllSpace(s) == \A k \in 1..Len(s) : s[k] \in Whitespace

LStrip(s) ==
    IF AllSpace(s) THEN EmptyStr
    ELSE DropBefore(s, SetMin({k \in 1..Len(s) : s[k] \notin Whitespace}))

RStrip(s) ==
    IF AllSpace(s) THEN EmptyStr
    ELSE SubSeq(s, 1, SetMax({k \in 1..Len(s) : s[k] \notin Whitespace}))

\* str.strip() of a one-line string
Strip(s) == RStrip(LStrip(s))

\* str.startswith
StartsWith(s, p) == Len(s) >= Len(p) /\ SubSeq(s, 1, Len(p)) = p

\* the literal lit occurs in s at position i
LitAt(s, i, lit) == i + Len(lit) - 1 <= Len(s) /\ SubSeq(s, i, i + Len(lit) - 1) = lit

\* p in s
Contains(s, p) == \E i \in 1..(Len(s) + 1) : LitAt(s, i, p)

\* s.replace(p, ''): every non-overlapping occurrence, left to right
RECURSIVE Remove(_, _)
Remove(s, p) ==
    IF s = EmptyStr THEN EmptyStr
    ELSE IF LitAt(s, 1, p) THEN Remove(DropBefore(s, Len(p) + 1), p)
    ELSE <<s[1]>> \o Remove(Tail(s), p)

\* lines a..b of ls with the outer ends of the first and last one trimmed
TrimRange(ls, a, b) ==
    [k \in 1..(b - a + 1) |->
        IF a = b THEN Strip(ls[a])
        ELSE IF k = 1 THEN LStrip(ls[a])
        ELSE IF k = b - a + 1 THEN RStrip(ls[b])
        ELSE ls[a + k - 1]]

NonBlank(ls) == {k \in 1..Len(ls) : ~AllSpace(ls[k])}

\* str.strip() of a text of several lines: newlines are whitespace too, so
\* blank lines at both ends go, and the outer ends of the first and last
\* remaining line are trimmed
StripText(ls) ==
    IF NonBlank(ls) = {} THEN EmptyText
    ELSE TrimRange(ls, SetMin(NonBlank(ls)), SetMax(NonBlank(ls)))

-----------------------------------------------------------------------------
(* Regular expressions, matched the way re.match matches them *)

\* end of the greedy run of characters of class Cls that starts at i
RunEnd(s, i, Cls) ==
    CHOOSE j \in i..(Len(s) + 1) :
        /\ \A k \in i..(j - 1) : s[k] \in Cls
        /\ (j = Len(s) + 1 \/ s[j] \notin Cls)

\* end of the greedy run of characters other than the double quote
NameEnd(s, i) ==
    CHOOSE j \in i..(Len(s) + 1) :
        /\ \A k \in i..(j - 1) : s[k] # Quote
        /\ (j = Len(s) + 1 \/ s[j] = Quote)

\* re.match(r'^"([^"]+)"', line)
IsBlockStart(line) ==
    /\ Len(line) >= 3
    /\ line[1] = Quote
    /\ NameEnd(line, 2) > 2
    /\ NameEnd(line, 2) <= Len(line)

\* re.match(r'\d{4}-\d{2}-\d{2}', line)
IsDateLine(line) ==
    /\ Len(line) >= 10
    /\ \A k \in {1, 2, 3, 4, 6, 7, 9, 10} : line[k] \in Digits
    /\ line[5] = "-"
    /\ line[8] = "-"

KwDaemon == <<"d","a","e","m","o","n">>

KwPrio == <<"p","r","i","o","=">>

KwOsPrio == <<"o","s","_","p","r","i","o","=">>

KwTid == <<"t","i","d","=","0","x">>

KwNid == <<"n","i","d","=">>

KwHexPrefix == <<"0","x">>

\* A match in progress: the position of the next character and the groups
\* captured so far.  NoMatch is a failed match.
NoMatch == [pos |-> 0, groups |-> <<>>]

\* the literal lit
MLit(s, m, lit) ==
    IF m.pos # 0 /\ LitAt(s, m.pos, lit)
    THEN [m EXCEPT !.pos = @ + Len(lit)]
    ELSE NoMatch

\* \s+ : one or more characters of class Cls, not captured
MRun(s, m, Cls) ==
    IF m.pos # 0 /\ RunEnd(s, m.pos, Cls) > m.pos
    THEN [m EXCEPT !.pos = RunEnd(s, m.pos, Cls)]
    ELSE NoMatch

\* (\d+) : one or more characters of class Cls, captured with prefix before it
MGroup(s, m, prefix, Cls) ==
    IF m.pos # 0 /\ RunEnd(s, m.pos, Cls) > m.pos
    THEN [pos    |-> RunEnd(s, m.pos, Cls),
          groups |-> Append(m.groups, prefix \o SubSeq(s, m.pos, RunEnd(s, m.pos, Cls) - 1))]
    ELSE NoMatch

\* "([^"]+)" : the quoted name
MName(s, m) ==
    IF /\ m.pos # 0
       /\ LitAt(s, m.pos, <<Quote>>)
       /\ NameEnd(s, m.pos + 1) > m.pos + 1
       /\ NameEnd(s, m.pos + 1) <= Len(s)
    THEN [pos    |-> NameEnd(s, m.pos + 1) + 1,
          groups |-> Append(m.groups, SubSeq(s, m.pos + 1, NameEnd(s, m.pos + 1) - 1))]
    ELSE NoMatch

\* the keyword is matched and its group never reported
MDaemonNotCaptured(s, m) ==
    IF m.pos = 0 THEN NoMatch
    ELSE IF MRun(s, MLit(s, m, KwDaemon), Whitespace) # NoMatch
         THEN [pos    |-> MRun(s, MLit(s, m, KwDaemon), Whitespace).pos,
               groups |-> Append(m.groups, FALSE)]
         ELSE [m EXCEPT !.groups = Append(@, FALSE)]

\* (daemon\s+)? : the group is TRUE when the keyword and its whitespace are
\* there, FALSE (Python's None) when not; prio= cannot match where daemon does,
\* so no other way of matching exists
MDaemon(s, m) ==
    IF m.pos = 0 THEN NoMatch
    ELSE IF MRun(s, MLit(s, m, KwDaemon), Whitespace) # NoMatch
         THEN [pos    |-> MRun(s, MLit(s, m, KwDaemon), Whitespace).pos,
               groups |-> Append(m.groups, TRUE)]
         ELSE [m EXCEPT !.groups = Append(@, FALSE)]

\* \s+(.+?)(?:\s+\[0x([0-9a-f]+)\])?$ : whitespace, then at least one more
\* character of any kind up to the end of the line (the status and the
\* optional address; neither is stored)
MStatus(s, m) ==
    IF /\ m.pos # 0
       /\ RunEnd(s, m.pos, Whitespace) > m.pos
       /\ (RunEnd(s, m.pos, Whitespace) <= Len(s) \/ RunEnd(s, m.pos, Whitespace) - m.pos >= 2)
    THEN [m EXCEPT !.pos = Len(s) + 1]
    ELSE NoMatch

\* re.match(header_pattern, s): the groups name, thread_id, daemon_str,
\* priority, os_prio, tid, nid in this order, or NoMatch
MatchHeader(s) ==
    MStatus(s,
     MGroup(s, MLit(s, MLit(s, MRun(s,
      MGroup(s, MLit(s, MRun(s,
       MGroup(s, MLit(s, MRun(s,
        MGroup(s, MLit(s,
         MDaemon(s, MRun(s,
          MGroup(s, MLit(s, MRun(s,
           MName(s, [pos |-> 1, groups |-> <<>>]),
           Whitespace), <<"#">>), EmptyStr, Digits),
          Whitespace)),
         KwPrio), EmptyStr, Digits),
        Whitespace), KwOsPrio), EmptyStr, Digits),
       Whitespace), KwTid), EmptyStr, HexDigits),
      Whitespace), KwNid), KwHexPrefix), KwHexPrefix, HexDigits))

-----------------------------------------------------------------------------
(* ThreadInfo and the parser *)

ThreadInfo(name, thread_id, daemon, priority, os_prio, tid, nid, state, stack_trace) ==
    [name |-> name, thread_id |-> thread_id, daemon |-> daemon,
     priority |-> priority, os_prio |-> os_prio, tid |-> tid, nid |-> nid,
     state |-> state, stack_trace |-> stack_trace]

\* the text held by current_block, kept as the indexes of its lines in the
\* input; <<>> is the empty string
BlockText(lines, cur) ==
    IF cur = <<>> THEN EmptyText ELSE [k \in 1..Len(cur) |-> lines[cur[k]]]

\* the loop of _split_thread_blocks from line i on; the result is the list of
\* blocks, each as the list of indexes of its lines
RECURSIVE SplitLoop(_, _, _, _)
SplitLoop(lines, i, blocks, current_block) ==
    IF i > Len(lines)
    THEN IF StripText(BlockText(lines, current_block)) # EmptyText
         THEN Append(blocks, current_block)
         ELSE blocks
    ELSE IF IsBlockStart(lines[i]) /\ current_block # <<>>
         THEN SplitLoop(lines, i + 1, Append(blocks, current_block), <<i>>)
         ELSE IF current_block = <<>> /\ lines[i] = EmptyStr
              THEN SplitLoop(lines, i + 1, blocks, <<>>)
              ELSE SplitLoop(lines, i + 1, blocks, Append(current_block, i))

BlockIndexes(lines) == SplitLoop(lines, 1, <<>>, <<>>)

StripBlocks(lines, idx) ==
    [b \in 1..Len(idx) |-> StripText(BlockText(lines, idx[b]))]

\* _split_thread_blocks: every block is appended stripped
_split_thread_blocks(lines) == StripBlocks(lines, BlockIndexes(lines))

StatePrefix == <<"j","a","v","a",".","l","a","n","g",".","T","h","r","e","a","d",".","S","t","a","t","e",":">>

FramePrefixAt == <<"a","t"," ">>

FramePrefixLock == <<"-"," ">>

Unknown == <<"U","N","K","N","O","W","N">>

\* the iteration without the test for lock lines
BodyStepAtOnly(body, line) ==
    IF StartsWith(line, StatePrefix)
    THEN [body EXCEPT !.state = Strip(Remove(line, StatePrefix))]
    ELSE IF StartsWith(line, FramePrefixAt)
         THEN [body EXCEPT !.stack_trace = Append(@, line)]
         ELSE body

\* one iteration of the body loop of _parse_thread_block, for the stripped line
BodyStep(body, line) ==
    IF StartsWith(line, StatePrefix)
    THEN [body EXCEPT !.state = Strip(Remove(line, StatePrefix))]
    ELSE IF StartsWith(line, FramePrefixAt) \/ StartsWith(line, FramePrefixLock)
         THEN [body EXCEPT !.stack_trace = Append(@, line)]
         ELSE body

\* the body loop of _parse_thread_block from line i of the block on
RECURSIVE BodyLoop(_, _, _)
BodyLoop(lines, i, body) ==
    IF i > Len(lines) THEN body
    ELSE BodyLoop(lines, i + 1, BodyStep(body, Strip(lines[i])))

\* the ThreadInfo of a matched header and a parsed body, or None
MakeThread(match, body) ==
    IF match = NoMatch THEN None
    ELSE ThreadInfo(match.groups[1], match.groups[2], match.groups[3], match.groups[4],
                    match.groups[5], match.groups[6], match.groups[7],
                    body.state, body.stack_trace)

\* _parse_thread_block: a ThreadInfo, or None when the header does not match
_parse_thread_block(block) ==
    MakeThread(MatchHeader(Strip(block[1])),
               BodyLoop(block, 2, [state |-> Unknown, stack_trace |-> <<>>]))

\* self.threads.append(thread), whatever _parse_thread_block returned
AppendThreadAlways(acc, thread) == Append(acc, thread)

\* self.threads.append(thread) if thread
AppendThread(acc, thread) == IF thread # None THEN Append(acc, thread) ELSE acc

\* the loop of parse_jstack_output over the blocks
RECURSIVE ParseBlocks(_, _, _)
ParseBlocks(thread_blocks, i, acc) ==
    IF i > Len(thread_blocks) THEN acc
    ELSE ParseBlocks(thread_blocks, i + 1,
                     AppendThread(acc, _parse_thread_block(thread_blocks[i])))

ParseThreads(lines) == ParseBlocks(_split_thread_blocks(lines), 1, <<>>)

BannerPhrase == <<"F","u","l","l"," ","t","h","r","e","a","d"," ","d","u","m","p">>

\* number of leading lines scanned for the banner and the date stamp
BannerLines == 10

\* the banner loop of parse_jstack_output: each matching line assigns
RECURSIVE BannerLoop(_, _, _, _)
BannerLoop(lines, i, ts, info) ==
    IF i > Len(lines) \/ i > BannerLines THEN [timestamp |-> ts, jvm_info |-> info]
    ELSE IF Contains(lines[i], BannerPhrase)
         THEN BannerLoop(lines, i + 1, ts, Strip(lines[i]))
         ELSE IF IsDateLine(lines[i])
              THEN BannerLoop(lines, i + 1, Strip(lines[i]), info)
              ELSE BannerLoop(lines, i + 1, ts, info)

-----------------------------------------------------------------------------
(* Classifier *)

\* the patterns dict of _get_thread_group, in insertion order
patterns ==
    << [pattern |-> <<"n","i","o","E","v","e","n","t","L","o","o","p","G","r","o","u","p">>, group |-> "Netty NIO"],
       [pattern |-> <<"g","r","p","c">>,              group |-> "gRPC"],
       [pattern |-> <<"O","k","H","t","t","p">>,            group |-> "OkHttp"],
       [pattern |-> <<"p","o","o","l","-">>,             group |-> "Thread Pool"],
       [pattern |-> <<"K","e","e","p","-","A","l","i","v","e">>,        group |-> "HTTP Keep-Alive"],
       [pattern |-> <<"A","t","t","a","c","h"," ","L","i","s","t","e","n","e","r">>,   group |-> "JVM Attach"],
       [pattern |-> <<"F","i","n","a","l","i","z","e","r">>,         group |-> "JVM Finalizer"],
       [pattern |-> <<"R","e","f","e","r","e","n","c","e"," ","H","a","n","d","l","e","r">>, group |-> "JVM Reference"],
       [pattern |-> <<"S","i","g","n","a","l"," ","D","i","s","p","a","t","c","h","e","r">>, group |-> "JVM Signal"],
       [pattern |-> <<"C","2"," ","C","o","m","p","i","l","e","r","T","h","r","e","a","d">>, group |-> "JIT Compiler"],
       [pattern |-> <<"V","M"," ","T","h","r","e","a","d">>,         group |-> "JVM VM"],
       [pattern |-> <<"S","a","f","e","p","o","i","n","t">>,         group |-> "JVM Safepoint"] >>

\* the loop without its return: the last matching entry wins
GroupLoopLast(thread_name, i) ==
    IF \E k \in i..Len(patterns) : Contains(thread_name, patterns[k].pattern)
    THEN patterns[SetMax({k \in i..Len(patterns) :
                            Contains(thread_name, patterns[k].pattern)})].group
    ELSE "Other"

\* the loop of _get_thread_group from table entry i on
RECURSIVE GroupLoop(_, _)
GroupLoop(thread_name, i) ==
    IF i > Len(patterns) THEN "Other"
    ELSE IF Contains(thread_name, patterns[i].pattern) THEN patterns[i].group
    ELSE GroupLoop(thread_name, i + 1)

_get_thread_group(thread_name) == GroupLoop(thread_name, 1)

UpperCase == <<"A","B","C","D","E","F","G","H","I","J","K","L","M","N","O","P","Q","R","S","T","U","V","W","X","Y","Z">>

LowerCase == <<"a","b","c","d","e","f","g","h","i","j","k","l","m","n","o","p","q","r","s","t","u","v","w","x","y","z">>

LowerChar(c) ==
    IF \E k \in 1..Len(UpperCase) : UpperCase[k] = c
    THEN LowerCase[CHOOSE k \in 1..Len(UpperCase) : UpperCase[k] = c]
    ELSE c

\* str.lower()
Lower(s) == [k \in 1..Len(s) |-> LowerChar(s[k])]

\* the chain without the test for 'timed' in its second branch
StateClassNoTimedTest(state_lower) ==
    IF Contains(state_lower, <<"r","u","n","n","a","b","l","e">>) THEN "state-runnable"
    ELSE IF Contains(state_lower, <<"w","a","i","t","i","n","g">>) THEN "state-waiting"
    ELSE IF Contains(state_lower, <<"t","i","m","e","d","_","w","a","i","t","i","n","g">>) \/ Contains(state_lower, <<"t","i","m","e","d"," ","w","a","i","t","i","n","g">>)
         THEN "state-timed_waiting"
    ELSE IF Contains(state_lower, <<"b","l","o","c","k","e","d">>) THEN "state-blocked"
    ELSE "state-other"

\* the chain of tests of _get_state_class on state.lower()
StateClassOf(state_lower) ==
    IF Contains(state_lower, <<"r","u","n","n","a","b","l","e">>) THEN "state-runnable"
    ELSE IF Contains(state_lower, <<"w","a","i","t","i","n","g">>) /\ ~Contains(state_lower, <<"t","i","m","e","d">>)
         THEN "state-waiting"
    ELSE IF Contains(state_lower, <<"t","i","m","e","d","_","w","a","i","t","i","n","g">>) \/ Contains(state_lower, <<"t","i","m","e","d"," ","w","a","i","t","i","n","g">>)
         THEN "state-timed_waiting"
    ELSE IF Contains(state_lower, <<"b","l","o","c","k","e","d">>) THEN "state-blocked"
    ELSE "state-other"

_get_state_class(state) == StateClassOf(Lower(state))

-----------------------------------------------------------------------------
(* Deduplicator *)

\* the positions from which s is digits only up to its end
DigitTail(s) == {k \in 1..Len(s) : \A j \in k..Len(s) : s[j] \in Digits}

\* the digits after a trailing hyphen go and the hyphen stays
StripHyphenDigitsKeepHyphen(s) ==
    IF DigitTail(s) # {} /\ SetMin(DigitTail(s)) > 1 /\ s[SetMin(DigitTail(s)) - 1] = "-"
    THEN SubSeq(s, 1, SetMin(DigitTail(s)) - 1)
    ELSE s

\* re.sub(r'-\d+$', '', s): a trailing hyphen and digits
StripHyphenDigits(s) ==
    IF DigitTail(s) # {} /\ SetMin(DigitTail(s)) > 1 /\ s[SetMin(DigitTail(s)) - 1] = "-"
    THEN SubSeq(s, 1, SetMin(DigitTail(s)) - 2)
    ELSE s

\* re.sub(r'\d+$', '', s): trailing digits
StripDigits(s) ==
    IF DigitTail(s) # {} THEN SubSeq(s, 1, SetMin(DigitTail(s)) - 1) ELSE s

\* base_name of _deduplicate_threads_by_name_pattern
BaseName(name) == Strip(StripDigits(StripHyphenDigits(name)))

\* the loop without seen_groups.add(group_key)
RECURSIVE DedupLoopNoAdd(_, _, _, _)
DedupLoopNoAdd(ts, i, seen_groups, deduplicated_threads) ==
    IF i > Len(ts) THEN deduplicated_threads
    ELSE IF BaseName(ts[i].name) \notin seen_groups
         THEN DedupLoopNoAdd(ts, i + 1, seen_groups, Append(deduplicated_threads, i))
         ELSE DedupLoopNoAdd(ts, i + 1, seen_groups, deduplicated_threads)

\* the loop of _deduplicate_threads_by_name_pattern from thread i on; the
\* list holds references to the ThreadInfo objects, kept as their indexes in ts
RECURSIVE DedupLoop(_, _, _, _)
DedupLoop(ts, i, seen_groups, deduplicated_threads) ==
    IF i > Len(ts) THEN deduplicated_threads
    ELSE IF BaseName(ts[i].name) \notin seen_groups
         THEN DedupLoop(ts, i + 1, seen_groups \cup {BaseName(ts[i].name)},
                        Append(deduplicated_threads, i))
         ELSE DedupLoop(ts, i + 1, seen_groups, deduplicated_threads)

\* the loop entered at the second thread
DedupIndexesFromSecond(ts) == DedupLoop(ts, 2, {}, <<>>)

DedupIndexes(ts) == DedupLoop(ts, 1, {}, <<>>)

\* seen_groups after the loop: the key of every thread that was appended
SeenGroups(ts, idx) == {BaseName(ts[idx[k]].name) : k \in 1..Len(idx)}

PickThreads(ts, idx) == [k \in 1..Len(idx) |-> ts[idx[k]]]

_deduplicate_threads_by_name_pattern(ts) == PickThreads(ts, DedupIndexes(ts))

-----------------------------------------------------------------------------
(* Aggregator *)

\* a Counter is the list of its keys in insertion order, each with its count
CounterHas(counter, key) == \E k \in 1..Len(counter) : counter[k].key = key

\* counter[key] = 1: a later occurrence of the key does not count
CounterAddOnce(counter, key) ==
    IF CounterHas(counter, key) THEN counter
    ELSE Append(counter, [key |-> key, count |-> 1])

\* counter[key] += 1
CounterAdd(counter, key) ==
    IF CounterHas(counter, key)
    THEN [k \in 1..Len(counter) |->
            IF counter[k].key = key
            THEN [key |-> key, count |-> counter[k].count + 1]
            ELSE counter[k]]
    ELSE Append(counter, [key |-> key, count |-> 1])

RECURSIVE CounterSum(_)
CounterSum(counter) ==
    IF counter = <<>> THEN 0 ELSE Head(counter).count + CounterSum(Tail(counter))

\* Counter(t.state for t in self.threads)
RECURSIVE CountStates(_, _, _)
CountStates(ts, i, counter) ==
    IF i > Len(ts) THEN counter
    ELSE CountStates(ts, i + 1, CounterAdd(counter, ts[i].state))

\* stats['thread_groups'][group].append(thread): a defaultdict(list), kept as
\* the list of its keys in insertion order, each with its member list
GroupAppend(thread_groups, group, t) ==
    IF \E k \in 1..Len(thread_groups) : thread_groups[k].group = group
    THEN [k \in 1..Len(thread_groups) |->
            IF thread_groups[k].group = group
            THEN [group |-> group, threads |-> Append(thread_groups[k].threads, t)]
            ELSE thread_groups[k]]
    ELSE Append(thread_groups, [group |-> group, threads |-> <<t>>])

\* the key a thread is counted under in stats['stack_traces']
StackKey(thread) ==
    IF thread.stack_trace # <<>> THEN thread.stack_trace[1] ELSE <<"e","m","p","t","y">>

\* the if / elif / elif chain of analyze_threads on the raw state: the branch
\* that appends to blocked_threads, to waiting_threads, to runnable_threads
IsBlocked(state) == Contains(state, <<"B","L","O","C","K","E","D">>)

\* an if in place of the elif
IsWaitingNoElif(state) ==
    Contains(state, <<"W","A","I","T","I","N","G">>) \/ Contains(state, <<"T","I","M","E","D","_","W","A","I","T","I","N","G">>)

IsWaiting(state) ==
    /\ ~Contains(state, <<"B","L","O","C","K","E","D">>)
    /\ (Contains(state, <<"W","A","I","T","I","N","G">>) \/ Contains(state, <<"T","I","M","E","D","_","W","A","I","T","I","N","G">>))

IsRunnable(state) ==
    /\ ~Contains(state, <<"B","L","O","C","K","E","D">>)
    /\ ~(Contains(state, <<"W","A","I","T","I","N","G">>) \/ Contains(state, <<"T","I","M","E","D","_","W","A","I","T","I","N","G">>))
    /\ Contains(state, <<"R","U","N","N","A","B","L","E">>)

AppendIf(cond, list, i) == IF cond THEN Append(list, i) ELSE list

\* one iteration of the loop of analyze_threads, for thread number i; the
\* lists hold references to the ThreadInfo objects, kept as their indexes
AnalyzeStep(st, thread, i) ==
    [st EXCEPT
        !.thread_groups    = GroupAppend(@, _get_thread_group(thread.name), i),
        !.blocked_threads  = AppendIf(IsBlocked(thread.state), @, i),
        !.waiting_threads  = AppendIf(IsWaiting(thread.state), @, i),
        !.runnable_threads = AppendIf(IsRunnable(thread.state), @, i),
        !.stack_traces     = IF thread.stack_trace # <<>>
                             THEN CounterAdd(@, StackKey(thread)) ELSE @]

RECURSIVE AnalyzeLoop(_, _, _)
AnalyzeLoop(st, ts, i) ==
    IF i > Len(ts) THEN st ELSE AnalyzeLoop(AnalyzeStep(st, ts[i], i), ts, i + 1)

analyze_threads(ts) ==
    AnalyzeLoop(
        [total_threads      |-> Len(ts),
         daemon_threads     |-> Cardinality({k \in 1..Len(ts) : ts[k].daemon}),
         non_daemon_threads |-> Cardinality({k \in 1..Len(ts) : ~ts[k].daemon}),
         states             |-> CountStates(ts, 1, <<>>),
         thread_groups      |-> <<>>,
         blocked_threads    |-> <<>>,
         waiting_threads    |-> <<>>,
         runnable_threads   |-> <<>>,
         stack_traces       |-> <<>>],
        ts, 1)

-----------------------------------------------------------------------------
(* What generate_html_report computes from the statistics *)

ZeroDivisionError == [raised |-> "ZeroDivisionError"]

\* count / total, an exact fraction; dividing by zero raises
Divide(count, total) ==
    IF total = 0 THEN ZeroDivisionError ELSE [num |-> count, den |-> total]

Times100(q) ==
    IF q = ZeroDivisionError THEN q ELSE [num |-> q.num * 100, den |-> q.den]

\* (count / total) * 100 if total > 0 else 0
Percentage(count, total) ==
    IF total > 0 THEN Times100(Divide(count, total)) ELSE [num |-> 0, den |-> 1]

\* rows sorted by descending size, rows of equal size in their original
\* order (sorted(..., reverse=True) and most_common() are stable)
SortBySize(rows, sizes) ==
    LET pos(k) == 1 + Cardinality({j \in 1..Len(rows) : sizes[j] > sizes[k]})
                    + Cardinality({j \in 1..(k - 1) : sizes[j] = sizes[k]})
    IN  [p \in 1..Len(rows) |-> rows[CHOOSE k \in 1..Len(rows) : pos(k) = p]]

\* Counter.most_common()
most_common(counter) ==
    SortBySize(counter, [k \in 1..Len(counter) |-> counter[k].count])

\* sorted(stats['thread_groups'].items(), key=lambda x: len(x[1]), reverse=True)
SortedGroups(thread_groups) ==
    SortBySize(thread_groups, [k \in 1..Len(thread_groups) |-> Len(thread_groups[k].threads)])

\* number of rows of the stack-pattern table
TopPatterns == 10

FirstN(sq, n) == SubSeq(sq, 1, IF Len(sq) < n THEN Len(sq) ELSE n)

IndexError == [raised |-> "IndexError"]

ValueError == [raised |-> "ValueError"]

\* stats['states'].most_common(1)[0][0]: indexing an empty list raises
FirstKey(sorted) == IF sorted = <<>> THEN IndexError ELSE [value |-> sorted[1].key]

\* max(stats['thread_groups'].items(), key=lambda x: len(x[1]))[0]: the first
\* of the largest groups; max() of nothing raises
MaxGroup(sorted) == IF sorted = <<>> THEN ValueError ELSE [value |-> sorted[1].group]

\* without the test for an empty counter
MostCommonStateUnguarded(st) == FirstKey(most_common(st.states))

\* ... if stats['states'] else 'N/A'
MostCommonState(st) ==
    IF st.states # <<>> THEN FirstKey(most_common(st.states)) ELSE [value |-> "N/A"]

\* ... if stats['thread_groups'] else 'N/A'
LargestGroup(st) ==
    IF st.thread_groups # <<>> THEN MaxGroup(SortedGroups(st.thread_groups)) ELSE [value |-> "N/A"]

StateRows(sorted, total) ==
    [k \in 1..Len(sorted) |->
        [state       |-> sorted[k].key,
         count       |-> sorted[k].count,
         percentage  |-> Percentage(sorted[k].count, total),
         state_class |-> _get_state_class(sorted[k].key)]]

GroupRows(sorted, total) ==
    [k \in 1..Len(sorted) |->
        [group      |-> sorted[k].group,
         count      |-> Len(sorted[k].threads),
         percentage |-> Percentage(Len(sorted[k].threads), total)]]

PatternRows(sorted, total) ==
    [k \in 1..Len(sorted) |->
        [pattern    |-> sorted[k].key,
         count      |-> sorted[k].count,
         percentage |-> Percentage(sorted[k].count, total)]]

DetailRows(dedup) ==
    [k \in 1..Len(dedup) |->
        [thread |-> dedup[k], state_class |-> _get_state_class(dedup[k].state)]]

\* the report data: the rows of the three tables, the alerts, the detailed
\* listing and the summary
ReportOf(ts, st) ==
    [state_rows        |-> StateRows(most_common(st.states), st.total_threads),
     group_rows        |-> GroupRows(SortedGroups(st.thread_groups), st.total_threads),
     warning           |-> Len(st.blocked_threads) > 0,
     critical          |-> Len(st.blocked_threads) * 10 > st.total_threads,
     detail_rows       |-> DetailRows(_deduplicate_threads_by_name_pattern(ts)),
     pattern_rows      |-> PatternRows(FirstN(most_common(st.stack_traces), TopPatterns),
                                       st.total_threads),
     most_common_state |-> MostCommonState(st),
     largest_group     |-> LargestGroup(st)]

\* the report raised instead of being written
Raised(rep) ==
    \/ \E k \in 1..Len(rep.state_rows) : rep.state_rows[k].percentage = ZeroDivisionError
    \/ \E k \in 1..Len(rep.group_rows) : rep.group_rows[k].percentage = ZeroDivisionError
    \/ \E k \in 1..Len(rep.pattern_rows) : rep.pattern_rows[k].percentage = ZeroDivisionError
    \/ rep.most_common_state = IndexError
    \/ rep.largest_group = ValueError

-----------------------------------------------------------------------------
(* main(): parse the dump, then analyze it and build the report *)

\* longest input text, in lines
MaxLines == 3

HeaderT1 == <<"\"","T","-","1","\""," ","#","1"," ","p","r","i","o","=","5"," ","o","s","_","p","r","i","o","=","0"," ","t","i","d","=","0","x","1","a"," ","n","i","d","=","0","x","2","b"," ","r","u","n","n","a","b","l","e">>

HeaderPool == <<"\"","p","o","o","l","-","2","\""," ","#","2"," ","d","a","e","m","o","n"," ","p","r","i","o","=","5"," ","o","s","_","p","r","i","o","=","0"," ","t","i","d","=","0","x","1"," ","n","i","d","=","0","x","2"," ","w","a","i","t","i","n","g"," ","[","0","x","7","f","]">>

HeaderNoNid == <<"\"","T","-","3","\""," ","#","3"," ","p","r","i","o","=","5"," ","o","s","_","p","r","i","o","=","0"," ","t","i","d","=","0","x","1"," ","r","u","n","n","a","b","l","e">>

StateRunnable == <<" "," "," ","j","a","v","a",".","l","a","n","g",".","T","h","r","e","a","d",".","S","t","a","t","e",":"," ","R","U","N","N","A","B","L","E">>

StateTimed == <<" "," "," ","j","a","v","a",".","l","a","n","g",".","T","h","r","e","a","d",".","S","t","a","t","e",":"," ","T","I","M","E","D","_","W","A","I","T","I","N","G"," ","(","p","a","r","k","i","n","g",")">>

StateMixed == <<" "," "," ","j","a","v","a",".","l","a","n","g",".","T","h","r","e","a","d",".","S","t","a","t","e",":"," ","W","A","I","T","I","N","G"," ","B","L","O","C","K","E","D"," ","R","U","N","N","A","B","L","E">>

FrameAt == <<"\t","a","t"," ","a",".","B",".","c","(","B",".","j","a","v","a",":","1",")">>

FrameLock == <<"\t","-"," ","l","o","c","k","e","d"," ","<","0","x","1",">">>

BannerLine == <<"F","u","l","l"," ","t","h","r","e","a","d"," ","d","u","m","p"," ","O","p","e","n","J","D","K">>

DateLine == <<"2","0","2","4","-","0","1","-","0","1"," ","1","0",":","0","0",":","0","0">>

DumpLines ==
    {HeaderT1, HeaderPool, HeaderNoNid, StateRunnable, StateTimed,
     StateMixed, FrameAt, BannerLine, DateLine, EmptyStr}

Texts == UNION {[1..n -> DumpLines] : n \in 1..MaxLines}

Init ==
    /\ pc = "start"
    /\ content \in Texts
    /\ threads = <<>>
    /\ timestamp = None
    /\ jvm_info = None
    /\ stats = None
    /\ report = None
    /\ arg = None
    /\ result = None

\* the assignments of parse_jstack_output
SetParsed(banner, parsed) ==
    /\ timestamp' = banner.timestamp
    /\ jvm_info' = banner.jvm_info
    /\ threads' = threads \o parsed

ParseJStackOutput ==
    /\ pc = "start"
    /\ SetParsed(BannerLoop(content, 1, None, None), ParseThreads(content))
    /\ pc' = "parsed"
    /\ UNCHANGED <<content, stats, report, arg, result>>

AnalyzeThreads ==
    /\ pc = "parsed"
    /\ stats' = analyze_threads(threads)
    /\ pc' = "analyzed"
    /\ UNCHANGED <<content, threads, timestamp, jvm_info, report, arg, result>>

\* the report is written, unless building it raised
WriteReport(rep) ==
    /\ report' = rep
    /\ pc' = IF Raised(rep) THEN "failed" ELSE "reported"

\* generate_html_report after stats = self.analyze_threads()
ReportFrom(st) ==
    /\ stats' = st
    /\ WriteReport(ReportOf(threads, st))

GenerateHtmlReport ==
    /\ pc \in {"parsed", "analyzed"}
    /\ ReportFrom(analyze_threads(threads))
    /\ UNCHANGED <<content, threads, timestamp, jvm_info, arg, result>>

Next == ParseJStackOutput \/ AnalyzeThreads \/ GenerateHtmlReport

Spec == Init /\ [][Next]_vars

-----------------------------------------------------------------------------
(* _parse_thread_block applied to one block, and to the same block with      *)
(* " daemon" inserted after the #id token of its header                      *)

\* the header up to and including the #id token
HeaderStarts == {<<"\"","T","-","1","\""," ","#","1","0">>, <<"\"","d","a","e","m","o","n"," ","1","\"","\t","#","7">>}

\* what stands between the #id token and prio=
HeaderKeywords == {<<" ">>, <<"\t">>, <<" ","d","a","e","m","o","n"," ">>, <<" ","d","a","e","m","o","n","\t"," ">>, <<" ","d","a","e","m","o","n">>, <<" ","D","a","e","m","o","n"," ">>}

HeaderTids == {<<"t","i","d","=","0","x","0","1">>, <<"t","i","d","=","0","x","A","B">>}

HeaderNids == {<<" ","n","i","d","=","0","x","0","2">>, EmptyStr}

HeaderStatuses == {<<" ","r","u","n","n","a","b","l","e">>, <<" ","w","a","i","t","i","n","g"," ","o","n"," ","c","o","n","d","i","t","i","o","n"," ","[","0","x","7","f","]">>, <<" ","i","n"," ","d","a","e","m","o","n"," ","m","o","d","e">>, EmptyStr}

BlockBodies == {<<>>, <<StateRunnable, FrameAt>>, <<FrameLock, StateTimed>>}

HeaderArgs ==
    {[start |-> h, keyword |-> k,
      rest |-> <<"p","r","i","o","=","5"," ","o","s","_","p","r","i","o","=","0"," ">> \o t \o n \o st, body |-> b] :
        h \in HeaderStarts, k \in HeaderKeywords, t \in HeaderTids,
        n \in HeaderNids, st \in HeaderStatuses, b \in BlockBodies}

\* the block of an argument, and the block with " daemon" inserted
BlockOf(a) == <<a.start \o a.keyword \o a.rest>> \o a.body

InsertedBlockOf(a) == <<a.start \o <<" ","d","a","e","m","o","n">> \o a.keyword \o a.rest>> \o a.body

InitHeader ==
    /\ pc = "call"
    /\ arg \in HeaderArgs
    /\ result = None
    /\ content = EmptyText
    /\ threads = <<>>
    /\ timestamp = None
    /\ jvm_info = None
    /\ stats = None
    /\ report = None

ParseBlock ==
    /\ pc = "call"
    /\ result' = [original |-> _parse_thread_block(BlockOf(arg))]
    /\ pc' = "parsed one"
    /\ UNCHANGED <<arg, content, threads, timestamp, jvm_info, stats, report>>

ParseInsertedBlock ==
    /\ pc = "parsed one"
    /\ result' = [original |-> result.original,
                  inserted |-> _parse_thread_block(InsertedBlockOf(arg))]
    /\ pc' = "parsed both"
    /\ UNCHANGED <<arg, content, threads, timestamp, jvm_info, stats, report>>

NextHeader == ParseBlock \/ ParseInsertedBlock

SpecHeader == InitHeader /\ [][NextHeader]_vars

-----------------------------------------------------------------------------
(* _deduplicate_threads_by_name_pattern applied to a thread list, and to     *)
(* its own result                                                            *)

\* longest thread list
MaxThreads == 3

ThreadNames ==
    {<<"p","o","o","l","-","1","-","t","h","r","e","a","d","-","1">>, <<"p","o","o","l","-","1","-","t","h","r","e","a","d","-","2">>, <<"W","o","r","k","e","r","2">>, <<"W","o","r","k","e","r">>, <<"W","o","r","k","e","r","-","3">>, <<"m","a","i","n"," ","1">>}

NamedThread(name) ==
    ThreadInfo(name, <<"1">>, FALSE, <<"5">>, <<"0">>, <<"1","a">>, <<"0","x","2","b">>, Unknown, <<>>)

ThreadLists ==
    UNION {[1..n -> {NamedThread(name) : name \in ThreadNames}] : n \in 0..MaxThreads}

InitDedup ==
    /\ pc = "call"
    /\ arg \in ThreadLists
    /\ result = None
    /\ content = EmptyText
    /\ threads = <<>>
    /\ timestamp = None
    /\ jvm_info = None
    /\ stats = None
    /\ report = None

Deduplicate ==
    /\ pc = "call"
    /\ result' = [refs |-> DedupIndexes(arg),
                  seen_groups |-> SeenGroups(arg, DedupIndexes(arg)),
                  once |-> _deduplicate_threads_by_name_pattern(arg)]
    /\ pc' = "deduplicated"
    /\ UNCHANGED <<arg, content, threads, timestamp, jvm_info, stats, report>>

DeduplicateAgain ==
    /\ pc = "deduplicated"
    /\ result' = [refs  |-> result.refs,
                  seen_groups |-> result.seen_groups,
                  once  |-> result.once,
                  twice |-> _deduplicate_threads_by_name_pattern(result.once)]
    /\ pc' = "deduplicated twice"
    /\ UNCHANGED <<arg, content, threads, timestamp, jvm_info, stats, report>>

NextDedup == Deduplicate \/ DeduplicateAgain

SpecDedup == InitDedup /\ [][NextDedup]_vars

-----------------------------------------------------------------------------
(* _get_thread_group applied to a thread name, twice                         *)

\* most parts a thread name is put together from
MaxNameParts == 2

NameParts ==
    {patterns[k].pattern : k \in 1..Len(patterns)} \cup {<<"G","R","P","C">>, <<"o","k","h","t","t","p">>, <<"p","o","o","l">>, <<"-","1">>}

RECURSIVE Joined(_, _)
Joined(Parts, n) ==
    IF n = 0 THEN {EmptyStr}
    ELSE Joined(Parts, n - 1) \cup {a \o b : a \in Joined(Parts, n - 1), b \in Parts}

InitGroup ==
    /\ pc = "call"
    /\ arg \in Joined(NameParts, MaxNameParts) \ {EmptyStr}
    /\ result = None
    /\ content = EmptyText
    /\ threads = <<>>
    /\ timestamp = None
    /\ jvm_info = None
    /\ stats = None
    /\ report = None

GetThreadGroup ==
    /\ pc = "call"
    /\ result' = [first |-> _get_thread_group(arg)]
    /\ pc' = "classified"
    /\ UNCHANGED <<arg, content, threads, timestamp, jvm_info, stats, report>>

GetThreadGroupAgain ==
    /\ pc = "classified"
    /\ result' = [first |-> result.first, second |-> _get_thread_group(arg)]
    /\ pc' = "classified twice"
    /\ UNCHANGED <<arg, content, threads, timestamp, jvm_info, stats, report>>

NextGroup == GetThreadGroup \/ GetThreadGroupAgain

SpecGroup == InitGroup /\ [][NextGroup]_vars

-----------------------------------------------------------------------------
(* _get_state_class applied to the state of a thread                         *)

\* most parts a raw state is put together from
MaxStateParts == 3

StateParts ==
    {<<"R","U","N","N","A","B","L","E">>, <<"R","u","n","n","a","b","l","e">>, <<"W","A","I","T","I","N","G">>, <<"w","a","i","t","i","n","g">>, <<"T","I","M","E","D">>, <<"t","i","m","e","d">>,
     <<"_">>, <<" ">>, <<"B","L","O","C","K","E","D">>, <<"B","l","o","c","k","e","d">>, <<"N","E","W">>, <<"T","I","M","E","D","_","W","A","I","T","I","N","G">>}

InitStateClass ==
    /\ pc = "call"
    /\ arg \in {ThreadInfo(<<"m","a","i","n">>, <<"1">>, FALSE, <<"5">>, <<"0">>, <<"1","a">>, <<"0","x","2","b">>, st, <<>>) :
                    st \in Joined(StateParts, MaxStateParts)}
    /\ result = None
    /\ content = EmptyText
    /\ threads = <<>>
    /\ timestamp = None
    /\ jvm_info = None
    /\ stats = None
    /\ report = None

\* state_class = self._get_state_class(thread.state); the thread is found as
\* it is after the call
GetStateClass ==
    /\ pc = "call"
    /\ result' = [state_class |-> _get_state_class(arg.state), thread |-> arg]
    /\ pc' = "classified"
    /\ UNCHANGED <<arg, content, threads, timestamp, jvm_info, stats, report>>

NextStateClass == GetStateClass

SpecStateClass == InitStateClass /\ [][NextStateClass]_vars

-----------------------------------------------------------------------------
(* parse_jstack_output applied to texts with several banner and date lines, *)
(* before and after the tenth line                                          *)

\* most lines before the run of blank lines
MaxBannerLines == 2

\* longest run of blank lines
MaxBlankLines == 10

DateLineLater == <<"2","0","2","4","-","0","1","-","0","2"," ","1","1",":","0","0",":","0","0">>

DateLineCR == <<"2","0","2","4","-","0","1","-","0","3"," ","1","2",":","0","0",":","0","0","\r">>

BannerLineLater == <<" "," ","F","u","l","l"," ","t","h","r","e","a","d"," ","d","u","m","p"," ","H","o","t","S","p","o","t">>

DatedBanner == <<"2","0","2","4","-","0","1","-","0","4"," ","F","u","l","l"," ","t","h","r","e","a","d"," ","d","u","m","p">>

BannerDumpLines ==
    {DateLine, DateLineLater, DateLineCR, BannerLine, BannerLineLater, DatedBanner, HeaderT1}

BlankLines(n) == [k \in 1..n |-> EmptyStr]

\* some lines, a run of blank lines, and at most one more line
BannerTexts ==
    {head \o BlankLines(n) \o last :
        head \in UNION {[1..m -> BannerDumpLines] : m \in 1..MaxBannerLines},
        n \in 0..MaxBlankLines,
        last \in {<<>>} \cup {<<l>> : l \in BannerDumpLines}}

InitBanner ==
    /\ pc = "start"
    /\ content \in BannerTexts
    /\ threads = <<>>
    /\ timestamp = None
    /\ jvm_info = None
    /\ stats = None
    /\ report = None
    /\ arg = None
    /\ result = None

NextBanner == ParseJStackOutput

SpecBanner == InitBanner /\ [][NextBanner]_vars

-----------------------------------------------------------------------------
(* _parse_thread_block applied to a header line followed by body lines       *)

\* longest block body, in lines
MaxBodyLines == 3

StateBare == <<" "," "," ","j","a","v","a",".","l","a","n","g",".","T","h","r","e","a","d",".","S","t","a","t","e",":">>

StateTwice == <<"j","a","v","a",".","l","a","n","g",".","T","h","r","e","a","d",".","S","t","a","t","e",":"," ","N","E","W"," ","j","a","v","a",".","l","a","n","g",".","T","h","r","e","a","d",".","S","t","a","t","e",":"," ","B","L","O","C","K","E","D">>

FrameNamingState == <<"\t","a","t"," ","j","a","v","a",".","l","a","n","g",".","T","h","r","e","a","d",".","S","t","a","t","e",":"," ","r","u","n">>

BareAt == <<" "," ","a","t"," "," ">>

OwnableHeading == <<" "," "," ","L","o","c","k","e","d"," ","o","w","n","a","b","l","e"," ","s","y","n","c","h","r","o","n","i","z","e","r","s",":">>

BodyLines ==
    {StateRunnable, StateTimed, StateBare, StateTwice, FrameAt, FrameLock,
     FrameNamingState, BareAt, OwnableHeading}

Blocks ==
    {<<h>> \o body :
        h \in {HeaderT1, HeaderNoNid},
        body \in UNION {[1..n -> BodyLines] : n \in 0..MaxBodyLines}}

InitBody ==
    /\ pc = "call"
    /\ arg \in Blocks
    /\ result = None
    /\ content = EmptyText
    /\ threads = <<>>
    /\ timestamp = None
    /\ jvm_info = None
    /\ stats = None
    /\ report = None

\* thread = self._parse_thread_block(block)
ParseThreadBlock ==
    /\ pc = "call"
    /\ result' = [thread |-> _parse_thread_block(arg)]
    /\ pc' = "parsed"
    /\ UNCHANGED <<arg, content, threads, timestamp, jvm_info, stats, report>>

NextBody == ParseThreadBlock

SpecBody == InitBody /\ [][NextBody]_vars

-----------------------------------------------------------------------------
(* _split_thread_blocks applied to a text                                    *)

\* longest text given to the splitter, in lines
MaxSplitLines == 3

HeaderMarkerOnly == <<"\"","T","-","2","\"">>

HeaderIndented == <<" "," ","\"","T","-","4","\""," ","#","4"," ","p","r","i","o","=","5"," ","o","s","_","p","r","i","o","=","0"," ","t","i","d","=","0","x","1"," ","n","i","d","=","0","x","2"," ","r","u","n","n","a","b","l","e">>

QuotedFrame == <<"\""," ","a","t"," ","a",".","B",".","c","(","B",".","j","a","v","a",":","2",")">>

SpaceLine == <<" "," ">>

SplitLines ==
    {HeaderT1, HeaderMarkerOnly, HeaderIndented, QuotedFrame, FrameAt,
     StateRunnable, DateLine, SpaceLine, EmptyStr}

InitSplit ==
    /\ pc = "call"
    /\ arg \in UNION {[1..n -> SplitLines] : n \in 1..MaxSplitLines}
    /\ result = None
    /\ content = EmptyText
    /\ threads = <<>>
    /\ timestamp = None
    /\ jvm_info = None
    /\ stats = None
    /\ report = None

\* thread_blocks = self._split_thread_blocks(content); each block is kept
\* with the indexes of the input lines it was put together from
SplitThreadBlocks ==
    /\ pc = "call"
    /\ result' = [indexes |-> BlockIndexes(arg),
                  thread_blocks |-> _split_thread_blocks(arg)]
    /\ pc' = "split"
    /\ UNCHANGED <<arg, content, threads, timestamp, jvm_info, stats, report>>

NextSplit == SplitThreadBlocks

SpecSplit == InitSplit /\ [][NextSplit]_vars

-----------------------------------------------------------------------------
(* generate_html_report applied to one thread: its statistics, the alerts    *)
(* drawn from them and the state class of its detail row                     *)

\* the two alerts on blocked threads: any at all, and more than a tenth
Alerts(st) ==
    [warning  |-> Len(st.blocked_threads) > 0,
     critical |-> Len(st.blocked_threads) * 10 > st.total_threads]

\* what the report of the thread list ts shows of its first thread
ThreadReport(ts, st) ==
    [stats |-> st, alerts |-> Alerts(st), state_class |-> _get_state_class(ts[1].state)]

ReportThread ==
    /\ pc = "call"
    /\ result' = ThreadReport(<<arg>>, analyze_threads(<<arg>>))
    /\ pc' = "reported one"
    /\ UNCHANGED <<arg, content, threads, timestamp, jvm_info, stats, report>>

NextCategory == ReportThread

SpecCategory == InitStateClass /\ [][NextCategory]_vars

-----------------------------------------------------------------------------
(* Properties *)

Analyzed == pc \in {"analyzed", "reported", "failed"}

\* C1: after parse_jstack_output and analyze_threads the values of the state
\* counter sum to total_threads, and total_threads is the length of the
\* thread list
C1_StateCountsSumToTotal ==
    Analyzed =>
        /\ CounterSum(stats.states) = stats.total_threads
        /\ stats.total_threads = Len(threads)

\* several threads, two of them in the same state
C1_Witness ==
    /\ pc = "analyzed"
    /\ Len(threads) >= 2
    /\ \E k \in 1..Len(stats.states) : stats.states[k].count >= 2

\* the header carries the daemon keyword between its #id token and prio=
CarriesDaemon(a) == Contains(a.keyword, KwDaemon)

\* C2, as claimed: a record's daemon is true exactly when the header carries
\* the daemon keyword, and inserting " daemon" after the #id token of any
\* accepted header gives a record that differs only in daemon = true
C2_InsertingDaemonAlwaysAccepted ==
    (pc = "parsed both" /\ result.original # None) =>
        /\ result.original.daemon <=> CarriesDaemon(arg)
        /\ result.inserted = [result.original EXCEPT !.daemon = TRUE]

\* C2, amended: a record's daemon is true exactly when the header carries the
\* daemon keyword, and inserting " daemon" after the #id token of an accepted
\* header that does not carry the keyword yet gives a record that differs
\* only in daemon = true
C2_DaemonFlag ==
    /\ (pc # "call" /\ result.original # None) =>
            (result.original.daemon <=> CarriesDaemon(arg))
    /\ (pc = "parsed both" /\ result.original # None /\ ~CarriesDaemon(arg)) =>
            result.inserted = [result.original EXCEPT !.daemon = TRUE]

\* an accepted header without the keyword, with a state and a frame, and the
\* record of the header with the keyword inserted
C2_Witness ==
    /\ pc = "parsed both"
    /\ result.original # None
    /\ ~result.original.daemon
    /\ result.original.stack_trace # <<>>
    /\ result.inserted # None
    /\ result.inserted.daemon

\* the first line of the block matches the header grammar
HeaderValid(block) == MatchHeader(Strip(block[1])) # NoMatch

RecordsOf(blocks) == [k \in 1..Len(blocks) |-> _parse_thread_block(blocks[k])]

\* the n-th of the lines whose indexes are in keep
NthKept(lines, keep, n) ==
    lines[CHOOSE k \in keep : Cardinality({j \in keep : j < k}) = n - 1]

KeepLines(lines, keep) ==
    IF keep = {} THEN EmptyText
    ELSE [n \in 1..Cardinality(keep) |-> NthKept(lines, keep, n)]

\* the text without the lines of one block
WithoutBlock(lines, idx) ==
    KeepLines(lines, {k \in 1..Len(lines) : \A j \in 1..Len(idx) : idx[j] # k})

\* C3: a block whose first line does not match the header grammar gives no
\* record; the thread list is the records of the blocks with valid headers,
\* in dump order, and is the list parsed from the input without that block
C3_MalformedBlockDropped ==
    pc = "parsed" =>
        /\ threads = RecordsOf(SelectSeq(_split_thread_blocks(content), HeaderValid))
        /\ \A b \in 1..Len(BlockIndexes(content)) :
             ~HeaderValid(_split_thread_blocks(content)[b]) =>
                ParseThreads(WithoutBlock(content, BlockIndexes(content)[b])) = threads

\* a block that starts like a thread block and has no valid header, between
\* two blocks that have one
C3_Witness ==
    /\ pc = "parsed"
    /\ Len(threads) = 2
    /\ \E b \in 1..Len(BlockIndexes(content)) :
         /\ IsBlockStart(_split_thread_blocks(content)[b][1])
         /\ ~HeaderValid(_split_thread_blocks(content)[b])

\* C4: the deduplicated list is a subsequence of the input, holds exactly one
\* record for each normalized base name of the input, and that record is the
\* first input record of that base name
C4_OnePerBaseNameFirstKept ==
    pc # "call" =>
        /\ \A k \in 1..Len(result.refs) : result.refs[k] \in 1..Len(arg)
        /\ \A k \in 1..(Len(result.refs) - 1) : result.refs[k] < result.refs[k + 1]
        /\ result.once = [k \in 1..Len(result.refs) |-> arg[result.refs[k]]]
        /\ \A i \in 1..Len(arg) :
             Cardinality({k \in 1..Len(result.refs) :
                BaseName(arg[result.refs[k]].name) = BaseName(arg[i].name)}) = 1
        /\ \A k \in 1..Len(result.refs) : \A j \in 1..(result.refs[k] - 1) :
             BaseName(arg[j].name) # BaseName(arg[result.refs[k]].name)

\* two records of different names and one base name, and a second group
C4_Witness ==
    /\ pc = "deduplicated"
    /\ Len(result.once) = 2
    /\ \E i, j \in 1..Len(arg) :
         /\ i < j
         /\ arg[i].name # arg[j].name
         /\ BaseName(arg[i].name) = BaseName(arg[j].name)

\* C5: deduplicating the deduplicated list changes nothing
C5_DedupIdempotent ==
    pc = "deduplicated twice" => result.twice = result.once

\* a list that the first deduplication shortened, deduplicated again
C5_Witness ==
    /\ pc = "deduplicated twice"
    /\ Len(result.once) >= 2
    /\ Len(result.once) < Len(arg)

Matches(name, k) == Contains(name, patterns[k].pattern)

\* C6: _get_thread_group returns the label of the earliest table entry whose
\* substring occurs in the name, 'Other' when none does, and the same label
\* when called again
C6_FirstMatchInTableOrder ==
    /\ pc # "call" =>
        /\ \A k \in 1..Len(patterns) :
             (Matches(arg, k) /\ \A j \in 1..(k - 1) : ~Matches(arg, j)) =>
                result.first = patterns[k].group
        /\ (\A k \in 1..Len(patterns) : ~Matches(arg, k)) => result.first = "Other"
    /\ pc = "classified twice" => result.second = result.first

\* a name in which two table entries occur, labelled by the earlier one
C6_Witness ==
    /\ pc = "classified twice"
    /\ \E j, k \in 1..Len(patterns) :
         /\ j < k
         /\ Matches(arg, j)
         /\ Matches(arg, k)
         /\ result.first = patterns[j].group

\* word occurs in the state, letter case aside
Has(state, word) == Contains(Lower(state), word)

\* C7: the state category is runnable when the state contains 'runnable';
\* else waiting when it contains 'waiting' and not 'timed'; else
\* timed-waiting when it contains 'timed_waiting' or 'timed waiting'; else
\* blocked when it contains 'blocked'; else other (letter case aside); and
\* the state of the record is as before
C7_StateCategory ==
    pc = "classified" =>
        /\ result.thread.state = arg.state
        /\ result.state_class \in {"state-runnable", "state-waiting", "state-timed_waiting",
                                   "state-blocked", "state-other"}
        /\ (result.state_class = "state-runnable") <=> Has(arg.state, <<"r","u","n","n","a","b","l","e">>)
        /\ (result.state_class = "state-waiting") <=>
              /\ ~Has(arg.state, <<"r","u","n","n","a","b","l","e">>)
              /\ Has(arg.state, <<"w","a","i","t","i","n","g">>)
              /\ ~Has(arg.state, <<"t","i","m","e","d">>)
        /\ (result.state_class = "state-timed_waiting") <=>
              /\ ~Has(arg.state, <<"r","u","n","n","a","b","l","e">>)
              /\ ~(Has(arg.state, <<"w","a","i","t","i","n","g">>) /\ ~Has(arg.state, <<"t","i","m","e","d">>))
              /\ (Has(arg.state, <<"t","i","m","e","d","_","w","a","i","t","i","n","g">>) \/ Has(arg.state, <<"t","i","m","e","d"," ","w","a","i","t","i","n","g">>))
        /\ (result.state_class = "state-blocked") <=>
              /\ ~Has(arg.state, <<"r","u","n","n","a","b","l","e">>)
              /\ ~(Has(arg.state, <<"w","a","i","t","i","n","g">>) /\ ~Has(arg.state, <<"t","i","m","e","d">>))
              /\ ~(Has(arg.state, <<"t","i","m","e","d","_","w","a","i","t","i","n","g">>) \/ Has(arg.state, <<"t","i","m","e","d"," ","w","a","i","t","i","n","g">>))
              /\ Has(arg.state, <<"b","l","o","c","k","e","d">>)

\* a state in capitals that holds 'timed_waiting' and 'blocked'
C7_Witness ==
    /\ pc = "classified"
    /\ Contains(arg.state, <<"T","I","M","E","D","_","W","A","I","T","I","N","G">>)
    /\ Contains(arg.state, <<"B","L","O","C","K","E","D">>)
    /\ result.state_class = "state-timed_waiting"

AllRows(rep) ==
    {rep.state_rows[k] : k \in 1..Len(rep.state_rows)}
        \cup {rep.group_rows[k] : k \in 1..Len(rep.group_rows)}
        \cup {rep.pattern_rows[k] : k \in 1..Len(rep.pattern_rows)}

\* C8: when no thread block is recognized, parsing and analysis end normally
\* with total_threads = 0, no daemon and no non-daemon thread, empty maps and
\* lists, and every percentage of the report 0, none of them a division by 0
C8_EmptyDumpIsNoError ==
    (pc # "start" /\ threads = <<>>) =>
        /\ pc # "failed"
        /\ Analyzed =>
            /\ stats.total_threads = 0
            /\ stats.daemon_threads = 0
            /\ stats.non_daemon_threads = 0
            /\ stats.states = <<>>
            /\ stats.thread_groups = <<>>
            /\ stats.stack_traces = <<>>
            /\ stats.blocked_threads = <<>>
            /\ stats.waiting_threads = <<>>
            /\ stats.runnable_threads = <<>>
        /\ pc = "reported" =>
            /\ ~Raised(report)
            /\ \A row \in AllRows(report) : row.percentage.num = 0

\* the report of a dump that holds a banner and no thread
C8_Witness ==
    /\ pc = "reported"
    /\ threads = <<>>
    /\ jvm_info # None

Members(list) == {list[k] : k \in 1..Len(list)}

Listed(st) ==
    Members(st.blocked_threads) \cup Members(st.waiting_threads)
        \cup Members(st.runnable_threads)

\* C9: no thread is in two of the blocked, waiting and runnable lists, nor
\* twice in one, so the three lengths and the number of threads in none of
\* them sum to total_threads
C9_ListsDisjoint ==
    Analyzed =>
        /\ Members(stats.blocked_threads) \cap Members(stats.waiting_threads) = {}
        /\ Members(stats.blocked_threads) \cap Members(stats.runnable_threads) = {}
        /\ Members(stats.waiting_threads) \cap Members(stats.runnable_threads) = {}
        /\ Len(stats.blocked_threads) + Len(stats.waiting_threads)
             + Len(stats.runnable_threads)
             + Cardinality({i \in 1..Len(threads) : i \notin Listed(stats)})
           = stats.total_threads

\* a thread whose state names all three lists, and a thread in none
C9_Witness ==
    /\ pc = "analyzed"
    /\ \E i \in 1..Len(threads) :
         /\ Contains(threads[i].state, <<"B","L","O","C","K","E","D">>)
         /\ Contains(threads[i].state, <<"W","A","I","T","I","N","G">>)
         /\ Contains(threads[i].state, <<"R","U","N","N","A","B","L","E">>)
    /\ \E i \in 1..Len(threads) : i \notin Listed(stats)

CountUnder(counter, key) ==
    IF CounterHas(counter, key)
    THEN (CHOOSE e \in Members(counter) : e.key = key).count
    ELSE 0

\* C10: every thread is counted once in the stack-pattern counter, under its
\* first frame, or under "empty" when it has no frame, so the counts sum to
\* the number of threads
C10_EveryThreadCounted ==
    Analyzed =>
        /\ CounterSum(stats.stack_traces) = stats.total_threads
        /\ \A i \in 1..Len(threads) :
             CountUnder(stats.stack_traces, StackKey(threads[i]))
               = Cardinality({j \in 1..Len(threads) :
                                StackKey(threads[j]) = StackKey(threads[i])})

\* the first of the first BannerLines lines that satisfies Test, or 0
FirstOfTen(lines, Test(_)) ==
    IF \E k \in 1..Len(lines) : k <= BannerLines /\ Test(lines[k])
    THEN SetMin({k \in 1..Len(lines) : k <= BannerLines /\ Test(lines[k])})
    ELSE 0

HasBanner(line) == Contains(line, BannerPhrase)

Verbatim(lines, k) == IF k = 0 THEN None ELSE lines[k]

\* C11: the timestamp is the first of the first ten lines that starts with a
\* date, stored verbatim, and the runtime header is the first of them that
\* contains 'Full thread dump'; a later matching line replaces neither, and
\* lines after the tenth are not used
C11_FirstMatchOfFirstTen ==
    pc = "parsed" =>
        /\ timestamp = Verbatim(content, FirstOfTen(content, IsDateLine))
        /\ jvm_info = Verbatim(content, FirstOfTen(content, HasBanner))

\* a block was parsed and its header was valid
ParsedRecord == pc = "parsed" /\ result.thread # None

\* C12: the record of a block with a valid header has a name and a state
\* that are not empty, whatever the body of the block
C12_NameAndStateNotEmpty ==
    ParsedRecord =>
        /\ result.thread.name # EmptyStr
        /\ result.thread.state # EmptyStr

IsStateLine(line) == StartsWith(Strip(line), StatePrefix)

\* the indexes of the body lines of a block that satisfy Test
BodyIndexes(block, Test(_)) == {k \in 2..Len(block) : Test(block[k])}

\* the trimmed remainder of a state-declaration line after the prefix
AfterPrefix(line) == Strip(DropBefore(Strip(line), Len(StatePrefix) + 1))

\* C13: the state is the trimmed remainder of the FIRST body line that, once
\* trimmed, begins with the state-declaration prefix; later such lines do not
\* change it; without such a line it is "UNKNOWN"
C13_StateFromFirstDeclaration ==
    ParsedRecord =>
        result.thread.state =
            IF BodyIndexes(arg, IsStateLine) = {} THEN Unknown
            ELSE AfterPrefix(arg[SetMin(BodyIndexes(arg, IsStateLine))])

IsFrameLine(line) ==
    StartsWith(Strip(line), FramePrefixAt) \/ StartsWith(Strip(line), FramePrefixLock)

\* the n-th, in source order, of the body lines whose indexes are in frames
NthFrame(block, frames, n) ==
    Strip(block[CHOOSE k \in frames : Cardinality({j \in frames : j < k}) = n - 1])

Markers(lines) == {k \in 1..Len(lines) : IsBlockStart(lines[k])}

\* the index of the first header-marker line after line m, or of the end
NextMarker(lines, m) ==
    IF \E k \in Markers(lines) : k > m
    THEN SetMin({k \in Markers(lines) : k > m})
    ELSE Len(lines) + 1

\* C15: every emitted block has exactly one header-marker line, its first
\* line, and is made of that line of the input and the lines after it up to
\* the next header-marker line or the end; every header-marker line of the
\* input starts exactly one emitted block
C15_OneHeaderPerBlock ==
    pc = "split" =>
        /\ \A b \in 1..Len(result.thread_blocks) :
             /\ Markers(result.thread_blocks[b]) = {1}
             /\ result.indexes[b][1] \in Markers(arg)
             /\ result.indexes[b] =
                  [k \in 1..(NextMarker(arg, result.indexes[b][1]) - result.indexes[b][1])
                     |-> result.indexes[b][1] + k - 1]
        /\ \A m \in Markers(arg) :
             Cardinality({b \in 1..Len(result.indexes) : result.indexes[b][1] = m}) = 1

\* the lines before the first header-marker line: all lines when there is none
Preamble(lines) == {k \in 1..Len(lines) : \A m \in Markers(lines) : k < m}

\* C16: no line that precedes the first header-marker line of the input is
\* part of an emitted block, also when the input has no header-marker line
\* and when those lines are only whitespace
C16_PreambleInNoBlock ==
    pc = "split" =>
        \A b \in 1..Len(result.indexes) :
            \A j \in 1..Len(result.indexes[b]) :
                result.indexes[b][j] \notin Preamble(arg)

NamesOf(ts) == {ts[k].name : k \in 1..Len(ts)}

PoolThreadNames == {<<"p","o","o","l","-","1","-","t","h","r","e","a","d","-","1">>, <<"p","o","o","l","-","1","-","t","h","r","e","a","d","-","2">>}

\* C17, as claimed: 'pool-1-thread-1' and 'pool-1-thread-2' normalize to one
\* base key, and the key is "pool-1-thread-" with its trailing hyphen
C17_KeyKeepsTrailingHyphen ==
    (pc = "deduplicated" /\ NamesOf(arg) = PoolThreadNames) =>
        result.seen_groups = {<<"p","o","o","l","-","1","-","t","h","r","e","a","d","-">>}

\* C17, amended: 'pool-1-thread-1' and 'pool-1-thread-2' normalize to one
\* base key, and the key is "pool-1-thread": the first stage removes the
\* hyphen together with the digits
C17_KeyWithoutTrailingHyphen ==
    (pc = "deduplicated" /\ NamesOf(arg) = PoolThreadNames) =>
        result.seen_groups = {<<"p","o","o","l","-","1","-","t","h","r","e","a","d">>}

\* both names were given, the first of them first, and one thread was kept
C17_Witness ==
    /\ pc = "deduplicated"
    /\ NamesOf(arg) = PoolThreadNames
    /\ arg[1].name = <<"p","o","o","l","-","1","-","t","h","r","e","a","d","-","1">>
    /\ result.once = <<arg[1]>>

\* C18: the thread is in the blocked list, which drives the alerts, exactly
\* when its state classifies as blocked, in the runnable list exactly when it
\* classifies as runnable, and in the waiting list exactly when it classifies
\* as waiting or timed-waiting, whatever the letter case of the state and the
\* keywords it contains
C18_ListsAgreeWithStateClass ==
    pc = "reported one" =>
        /\ (result.stats.blocked_threads # <<>>) = (result.state_class = "state-blocked")
        /\ result.alerts.warning = (result.state_class = "state-blocked")
        /\ (result.stats.runnable_threads # <<>>) = (result.state_class = "state-runnable")
        /\ (result.stats.waiting_threads # <<>>)
             = (result.state_class \in {"state-waiting", "state-timed_waiting"})

====
